---- MODULE Spec2Model ----
(***************************************************************************)
(* ExpressMaintenance (src/src/index.ts): an Express middleware that keeps *)
(* a local maintenance state, refreshes it from an optional external       *)
(* provider when a TTL has elapsed, blocks API requests while in           *)
(* maintenance mode and serves a management endpoint that reads or changes *)
(* the mode.                                                               *)
(*                                                                         *)
(* Four specifications: Spec (one gate, requests handled one at a time,    *)
(* the provider resolving to anything), SpecFaults (the gate on a store    *)
(* whose calls may reject), SpecReplicas (two gates on one store) and      *)
(* SpecConcurrent (calls in flight together, resumed at their awaits).     *)
(*                                                                         *)
(* Strings whose characters the code inspects (paths, urls, access keys)   *)
(* are sequences of one-character strings.  `undefined` is the record      *)
(* Undefined, so that it can be compared with the records standing for     *)
(* objects.                                                                *)
(***************************************************************************)
EXTENDS Integers, Sequences, FiniteSets, TLC

VARIABLES
    cfg,     \* the constructor options, fixed for the life of the gate
    gate,    \* the instance fields: currentServerMode, maintenanceResponseOptions, lastStateUpdateTimestamp
    now,     \* Date.now()
    last,    \* what the latest call of the middleware was given and what it did
    track,   \* history: the latest POST or DELETE the management endpoint processed
    store,   \* the external store behind getExternalMaintenanceState / setExternalMaintenanceState
    peer,    \* the instance fields of a second gate working on the same store
    calls,   \* the calls of the middleware in flight, each with its position
    hist     \* history kept for the properties of the store, the peer and the calls in flight

vars == <<cfg, gate, now, last, track, store, peer, calls, hist>>

----------------------------------------------------------------------------
(* Bounds *)

\* The clock runs from 0 (construction) to MaxTime.
MaxTime == 4

\* The configured localMaintenanceStateTTL, in clock ticks.
TTL == 1

----------------------------------------------------------------------------
(* Values *)

Undefined == [undefined |-> TRUE]

\* enum ServerMode
ServerMode == {"default", "maintenance"}

\* Two MaintenanceResponseOptions: the one the POST bodies carry and the one
\* the other users of the provider's store have put there.
OptionsDown == [statusCode |-> 503, body |-> [msg |-> "down"]]
OptionsBusy == [statusCode |-> 500, body |-> [msg |-> "busy"]]
DefinedOptions == {OptionsDown, OptionsBusy}
Options == DefinedOptions \cup {Undefined}

\* request.body: undefined (no body parsed) or response options.
Bodies == {Undefined, OptionsDown}

\* interface MaintenanceState
MaintenanceState == [currentServerMode : ServerMode, maintenanceResponseOptions : Options]

\* What getExternalMaintenanceState may resolve to: nothing, or a state
\* (either mode, without response options or with those of the store).
ExternalResults ==
    {Undefined} \cup
    {st \in MaintenanceState : st.maintenanceResponseOptions \in {Undefined, OptionsBusy}}

\* The configured paths and the request paths: one under the API base path,
\* one under neither, the management url alone and below the API base path.
ApiBasePath == <<"/", "a">>
Url == <<"/", "m">>
OverlapUrl == ApiBasePath \o Url
ApiPath == ApiBasePath \o <<"/", "x">>
OtherPath == <<"/", "x">>
Paths == {ApiPath, OtherPath, Url, OverlapUrl}

\* The access keys a request may give: none, the configured one, and one
\* that differs from it and happens to contain the API base path.
GoodKey == <<"k">>
ApiLikeKey == ApiBasePath
NoQuery == [present |-> FALSE, accessKey |-> << >>]
Queries == {NoQuery} \cup {[present |-> TRUE, accessKey |-> k] : k \in {GoodKey, ApiLikeKey}}

Methods == {"GET", "POST", "DELETE", "PUT"}

\* The requests handed to the middleware: method, path, parsed query and
\* parsed body.  Only POST requests carry a body.
Requests ==
    {r \in [method : Methods, path : Paths, query : Queries, body : Bodies] :
        r.method # "POST" => r.body = Undefined}

\* ExpressMaintenanceOptions: accessKey << >> stands for "not configured".
Configs ==
    [url : {Url, OverlapUrl},
     apiBasePath : {ApiBasePath},
     accessKey : {<< >>, GoodKey},
     localMaintenanceStateTTL : {TTL},
     hasGet : BOOLEAN,
     hasSet : BOOLEAN]

----------------------------------------------------------------------------
(* String functions of the platform *)

\* String.prototype.includes
includes(s, sub) ==
    \E i \in 0..(Len(s) - Len(sub)) : SubSeq(s, i + 1, i + Len(sub)) = sub

\* One pattern character against one input character: "." matches any.
CharMatches(p, c) == p = "." \/ p = c

\* new RegExp(`${pattern}$`).test(s), for a pattern of plain characters and ".".
RegExpEndTest(pattern, s) ==
    /\ Len(s) >= Len(pattern)
    /\ \A j \in 1..Len(pattern) : CharMatches(pattern[j], s[Len(s) - Len(pattern) + j])

\* request.url: the path followed by the raw query string, if any.  The
\* name of the accessKey parameter is written k; its value is kept as sent.
QueryPrefix == <<"?", "k", "=">>
RequestUrl(request) ==
    IF request.query.present
    THEN request.path \o QueryPrefix \o request.query.accessKey
    ELSE request.path

----------------------------------------------------------------------------
(* The private methods of ExpressMaintenance *)

\* Mutant: the comparison is not strict.
isItTimeAtTheBoundary(g, t) ==
    g.lastStateUpdateTimestamp + cfg.localMaintenanceStateTTL <= t

\* Mutant: the TTL is counted twice.
isItTimeAfterTwiceTheTTL(g, t) ==
    g.lastStateUpdateTimestamp + 2 * cfg.localMaintenanceStateTTL < t

isItTimeToUpdateLocalMaintenanceState(g, t) ==
    g.lastStateUpdateTimestamp + cfg.localMaintenanceStateTTL < t

isServerInMaintenanceMode(g) == g.currentServerMode = "maintenance"

\* Mutant: the requests to the management url are not taken for API requests.
isApiRequestOffTheManagementUrl(request) ==
    /\ includes(RequestUrl(request), cfg.apiBasePath)
    /\ ~RegExpEndTest(cfg.url, request.path)

isApiRequest(request) == includes(RequestUrl(request), cfg.apiBasePath)

isMaintenanceRequest(request) == RegExpEndTest(cfg.url, request.path)

getLocalMaintenanceState(g) ==
    [currentServerMode |-> g.currentServerMode,
     maintenanceResponseOptions |-> g.maintenanceResponseOptions]

\* Whether updateLocalMaintenanceState calls getExternalMaintenanceState.
RefreshReads(g, t) == cfg.hasGet /\ isItTimeToUpdateLocalMaintenanceState(g, t)

\* Mutant: the timestamp is renewed whatever the provider resolves to.
updateRenewsTimestampAlways(g, t, result) ==
    IF RefreshReads(g, t)
    THEN IF result # Undefined
         THEN [currentServerMode |-> result.currentServerMode,
               maintenanceResponseOptions |-> result.maintenanceResponseOptions,
               lastStateUpdateTimestamp |-> t]
         ELSE [g EXCEPT !.lastStateUpdateTimestamp = t]
    ELSE g

\* The local state updateLocalMaintenanceState leaves when the provider
\* resolves to `result` (not consulted when no read is made).
updateLocalMaintenanceState(g, t, result) ==
    IF RefreshReads(g, t) /\ result # Undefined
    THEN [currentServerMode |-> result.currentServerMode,
          maintenanceResponseOptions |-> result.maintenanceResponseOptions,
          lastStateUpdateTimestamp |-> t]
    ELSE g

----------------------------------------------------------------------------
(* The middleware *)

NoResponse == Undefined
NoWrites == << >>

\* Mutant: the message names the mode the gate was constructed with.
ModeMessageOfInitialMode(mode) == <<"Server in", "default", "mode now">>

ModeMessage(mode) == <<"Server in", mode, "mode now">>

\* accessKey !== this.accessKey, where an absent query parameter is undefined.
KeyDiffers(request) ==
    ~request.query.present \/ request.query.accessKey # cfg.accessKey

\* Mutant: the key is required of the requests that change the mode only.
UnauthorizedWritesOnly(request) ==
    cfg.accessKey # << >> /\ KeyDiffers(request) /\ request.method \in {"POST", "DELETE"}

\* this.accessKey && accessKey !== this.accessKey
Unauthorized(request) == cfg.accessKey # << >> /\ KeyDiffers(request)

\* Mutant: the operands of ?? swapped.
BodyOrCurrentSwapped(request, g) ==
    IF g.maintenanceResponseOptions # Undefined
    THEN g.maintenanceResponseOptions
    ELSE request.body

\* request.body ?? this.maintenanceResponseOptions
BodyOrCurrent(request, g) ==
    IF request.body # Undefined THEN request.body ELSE g.maintenanceResponseOptions

\* Mutant: a POST without a body changes nothing.
ActivateWithBodyOnly(request, g) ==
    IF request.body # Undefined
    THEN [g EXCEPT !.currentServerMode = "maintenance",
                   !.maintenanceResponseOptions = request.body]
    ELSE g

\* Mutant: the POST case toggles the mode.
ActivateToggles(request, g) ==
    [g EXCEPT !.currentServerMode =
                    IF g.currentServerMode = "default" THEN "maintenance" ELSE "default",
              !.maintenanceResponseOptions = BodyOrCurrent(request, g)]

\* The local state after the assignments of the POST case, of the DELETE case.
Activate(request, g) ==
    [g EXCEPT !.currentServerMode = "maintenance",
              !.maintenanceResponseOptions = BodyOrCurrent(request, g)]

\* Mutant: the DELETE case leaves the mode as it is.
DeactivateKeepsMode(g) == g

\* Mutant: the DELETE case clears the response options.
DeactivateClearsOptions(g) ==
    [g EXCEPT !.currentServerMode = "default", !.maintenanceResponseOptions = Undefined]

Deactivate(g) == [g EXCEPT !.currentServerMode = "default"]

\* What one call of the middleware did: the local state it leaves, the
\* number of provider reads, the state its blocking check saw (Undefined
\* when the check was not reached), the branch taken, the response sent (if
\* any), whether next() was called, whether the returned promise rejected,
\* the states handed to setExternalMaintenanceState and the order of the
\* externally visible events.
Outcome(g, reads, checked, branch, response, passthrough, thrown, writes, order) ==
    [gate |-> g, reads |-> reads, checked |-> checked, branch |-> branch,
     response |-> response, passthrough |-> passthrough, thrown |-> thrown,
     writes |-> writes, order |-> order]

\* Mutant: the state is persisted by the POST case only.
WriteOnPostOnly(g2, reads, checked, branch, pre, fault) ==
    LET state == getLocalMaintenanceState(g2)
        response == [status |-> 200,
                     body |-> [message |-> ModeMessage(g2.currentServerMode),
                               maintenanceResponseOptions |-> g2.maintenanceResponseOptions]]
    IN  IF cfg.hasSet /\ branch = "POST"
        THEN Outcome(g2, reads, checked, branch, response, FALSE, FALSE,
                     <<state>>, pre \o <<"write", "respond">>)
        ELSE Outcome(g2, reads, checked, branch, response, FALSE, FALSE,
                     NoWrites, pre \o <<"respond">>)

\* Mutant: the rejection of the write is caught and the 200 response sent.
WriteFailureAnswered(g2, reads, checked, branch, pre, fault) ==
    LET state == getLocalMaintenanceState(g2)
        response == [status |-> 200,
                     body |-> [message |-> ModeMessage(g2.currentServerMode),
                               maintenanceResponseOptions |-> g2.maintenanceResponseOptions]]
    IN  IF cfg.hasSet
        THEN Outcome(g2, reads, checked, branch, response, FALSE, FALSE,
                     <<state>>, pre \o <<"write", "respond">>)
        ELSE Outcome(g2, reads, checked, branch, response, FALSE, FALSE,
                     NoWrites, pre \o <<"respond">>)

\* The POST and DELETE cases once the local state has been changed to g2:
\* the awaited write, then the 200 response.
WriteAndRespond(g2, reads, checked, branch, pre, fault) ==
    LET state == getLocalMaintenanceState(g2)
        response == [status |-> 200,
                     body |-> [message |-> ModeMessage(g2.currentServerMode),
                               maintenanceResponseOptions |-> g2.maintenanceResponseOptions]]
    IN  IF cfg.hasSet
        THEN IF fault = "write"
             THEN Outcome(g2, reads, checked, branch, NoResponse, FALSE, TRUE,
                          <<state>>, pre \o <<"write", "throw">>)
             ELSE Outcome(g2, reads, checked, branch, response, FALSE, FALSE,
                          <<state>>, pre \o <<"write", "respond">>)
        ELSE Outcome(g2, reads, checked, branch, response, FALSE, FALSE,
                     NoWrites, pre \o <<"respond">>)

\* Mutant: the rejection of the read is caught and the request passed on.
ReadFailurePassedOn(g, reads, pre) ==
    Outcome(g, reads, Undefined, "refresh", NoResponse, TRUE, FALSE,
            NoWrites, pre \o <<"next">>)

\* The awaited getExternalMaintenanceState rejects: so do
\* updateLocalMaintenanceState and the handler, before anything is assigned.
ReadFailure(g, reads, pre) ==
    Outcome(g, reads, Undefined, "refresh", NoResponse, FALSE, TRUE,
            NoWrites, pre \o <<"throw">>)

\* The request handler returned by `get middleware`, run to completion at
\* time t; `result` is what the provider resolves to if it is called, and
\* fault names the external call that rejects, if any: "none", "read", "write".
Middleware(g, t, result, request, fault) ==
    LET doesRead == RefreshReads(g, t)
        reads == IF doesRead THEN 1 ELSE 0
        pre == IF doesRead THEN <<"read">> ELSE << >>
        g1 == updateLocalMaintenanceState(g, t, result)
        checked == getLocalMaintenanceState(g1)
        respond(branch, status, body) ==
            Outcome(g1, reads, checked, branch, [status |-> status, body |-> body],
                    FALSE, FALSE, NoWrites, pre \o <<"respond">>)
    IN  IF doesRead /\ fault = "read"
        THEN ReadFailure(g, reads, pre)
        ELSE IF isServerInMaintenanceMode(g1) /\ isApiRequest(request)
        THEN IF g1.maintenanceResponseOptions = Undefined
             THEN \* reading .statusCode of undefined throws a TypeError
                  Outcome(g1, reads, checked, "blocked", NoResponse, FALSE, TRUE,
                          NoWrites, pre \o <<"throw">>)
             ELSE respond("blocked", g1.maintenanceResponseOptions.statusCode,
                          g1.maintenanceResponseOptions.body)
        ELSE IF isMaintenanceRequest(request)
        THEN IF Unauthorized(request)
             THEN respond("unauthorized", 401,
                          [message |-> <<"You not authorized to perform this action">>])
             ELSE CASE request.method = "GET" ->
                         respond("GET", 200, [message |-> ModeMessage(g1.currentServerMode)])
                    [] request.method = "POST" ->
                         WriteAndRespond(Activate(request, g1), reads, checked, "POST", pre, fault)
                    [] request.method = "DELETE" ->
                         WriteAndRespond(Deactivate(g1), reads, checked, "DELETE", pre, fault)
                    [] OTHER ->
                         respond("default", 405,
                                 [message |-> <<request.method, "is not allowed for this endpoint">>])
        ELSE Outcome(g1, reads, checked, "next", NoResponse, TRUE, FALSE,
                     NoWrites, pre \o <<"next">>)

----------------------------------------------------------------------------
(* The state machine *)

NoRequest == [method |-> "GET", path |-> << >>, query |-> NoQuery, body |-> Undefined]

\* The record kept of a call: the request, what the provider resolved to
\* (Undefined also when it was not called) and the outcome but for the
\* local state, which is in gate.
Observed(request, result, o) ==
    [handled |-> TRUE, request |-> request,
     readResult |-> IF o.reads = 1 THEN result ELSE Undefined,
     reads |-> o.reads, checked |-> o.checked, branch |-> o.branch,
     response |-> o.response, passthrough |-> o.passthrough, thrown |-> o.thrown,
     writes |-> o.writes, order |-> o.order]

\* No POST or DELETE to remember.
NoTrack == [command |-> "none", body |-> Undefined]

\* The history after a call with outcome o that started in local state g:
\* the method and body of the latest POST or DELETE the management endpoint
\* processed.  It is forgotten once a call applies a provider state over
\* what that command set (the refresh then moves lastStateUpdateTimestamp).
Tracked(tr, request, g, o) ==
    IF o.branch \in {"POST", "DELETE"}
    THEN [command |-> o.branch, body |-> request.body]
    ELSE IF o.gate.lastStateUpdateTimestamp # g.lastStateUpdateTimestamp
    THEN NoTrack
    ELSE tr

\* constructor: mode default, no response options, timestamp = now.
Init ==
    /\ cfg \in Configs
    /\ now = 0
    /\ gate = [currentServerMode |-> "default",
               maintenanceResponseOptions |-> Undefined,
               lastStateUpdateTimestamp |-> now]
    /\ last = [handled |-> FALSE, request |-> NoRequest, readResult |-> Undefined,
               reads |-> 0, checked |-> Undefined, branch |-> "none",
               response |-> NoResponse, passthrough |-> FALSE, thrown |-> FALSE,
               writes |-> NoWrites, order |-> << >>]
    /\ track = NoTrack
    /\ store = Undefined
    /\ peer = Undefined
    /\ calls = << >>
    /\ hist = Undefined

\* What the provider may resolve to when the gate in state g reads it at t:
\* the store is shared with other server instances, so anything.
ProviderResults(g, t) == IF RefreshReads(g, t) THEN ExternalResults ELSE {Undefined}

\* One request handled from start to end, every external call succeeding.
HandleRequest ==
    \E request \in Requests :
        \E result \in ProviderResults(gate, now) :
            LET o == Middleware(gate, now, result, request, "none")
            IN  /\ gate' = o.gate
                /\ last' = Observed(request, result, o)
                /\ track' = Tracked(track, request, gate, o)
                /\ UNCHANGED <<cfg, now, store, peer, calls, hist>>

\* Time passes.
Tick ==
    /\ now < MaxTime
    /\ now' = now + 1
    /\ UNCHANGED <<cfg, gate, last, track, store, peer, calls, hist>>

Next == HandleRequest \/ Tick

Spec == Init /\ [][Next]_vars

----------------------------------------------------------------------------
(* The gate on a store whose calls may fail *)

\* The configurations and requests of this part: the management url off the
\* API base path, no access key, and requests without a query string to the
\* management url and to a protected path.
StoreConfigs == {c \in Configs : c.url = Url /\ c.accessKey = << >>}
StoreRequests == {r \in Requests : r.path \in {Url, ApiPath} /\ r.query = NoQuery}

\* The store is empty when the gate is constructed.
InitStore ==
    /\ cfg \in StoreConfigs
    /\ now = 0
    /\ gate = [currentServerMode |-> "default",
               maintenanceResponseOptions |-> Undefined,
               lastStateUpdateTimestamp |-> now]
    /\ last = [handled |-> FALSE, request |-> NoRequest, readResult |-> Undefined,
               reads |-> 0, checked |-> Undefined, branch |-> "none",
               response |-> NoResponse, passthrough |-> FALSE, thrown |-> FALSE,
               writes |-> NoWrites, order |-> << >>]
    /\ track = NoTrack
    /\ store = Undefined
    /\ peer = Undefined
    /\ calls = << >>
    /\ hist = Undefined

\* What the store holds after a call with outcome o: the state handed to
\* setExternalMaintenanceState when that call resolved, what it held when
\* the call rejected or was not made.
Stored(s, o) == IF o.writes # NoWrites /\ ~o.thrown THEN o.writes[1] ELSE s

\* One request handled from start to end on the store: the provider resolves
\* to what the store holds, unless the external call `fault` names rejects.
CallOnStore(request, fault) ==
    LET o == Middleware(gate, now, store, request, fault)
    IN  /\ gate' = o.gate
        /\ last' = Observed(request, IF fault = "read" THEN Undefined ELSE store, o)
        /\ track' = Tracked(track, request, gate, o)
        /\ store' = Stored(store, o)
        /\ UNCHANGED <<cfg, now, peer, calls, hist>>

\* A request handled with every external call succeeding.
HandleOnStore == \E request \in StoreRequests : CallOnStore(request, "none")

\* A request whose refresh step reads the provider, and the read rejects.
ReadRejects ==
    /\ RefreshReads(gate, now)
    /\ \E request \in StoreRequests : CallOnStore(request, "read")

\* A request that reaches the write of its POST or DELETE case, and the
\* write rejects.
WriteRejects ==
    \E request \in StoreRequests :
        /\ Middleware(gate, now, store, request, "none").writes # NoWrites
        /\ CallOnStore(request, "write")

\* Another server instance puts its state into the store.
OtherInstanceWrites ==
    /\ store' \in ExternalResults \ {Undefined, store}
    /\ UNCHANGED <<cfg, gate, now, last, track, peer, calls, hist>>

NextFaults == HandleOnStore \/ ReadRejects \/ WriteRejects \/ OtherInstanceWrites \/ Tick

SpecFaults == InitStore /\ [][NextFaults]_vars

----------------------------------------------------------------------------
(* Two gates on one store *)

\* Both gates are constructed with the same options, provider and persister
\* included; they are sent activations, deactivations and protected requests.
ReplicaConfigs == {c \in StoreConfigs : c.hasGet /\ c.hasSet}
ReplicaRequests ==
    {r \in StoreRequests :
        IF r.path = ApiPath THEN r.method = "GET" ELSE r.method \in {"POST", "DELETE"}}

\* Nothing written and nothing called yet.
NoHistory == [writer |-> "none", writtenAt |-> 0, caller |-> "none", calledAt |-> 0]

\* The history after the gate `name` made a call with outcome o at time t:
\* who called last and when, who wrote the store last and when.
Recorded(h, name, t, o) ==
    [writer |-> IF o.writes # NoWrites THEN name ELSE h.writer,
     writtenAt |-> IF o.writes # NoWrites THEN t ELSE h.writtenAt,
     caller |-> name,
     calledAt |-> t]

InitReplicas ==
    /\ cfg \in ReplicaConfigs
    /\ now = 0
    /\ gate = [currentServerMode |-> "default",
               maintenanceResponseOptions |-> Undefined,
               lastStateUpdateTimestamp |-> now]
    /\ peer = [currentServerMode |-> "default",
               maintenanceResponseOptions |-> Undefined,
               lastStateUpdateTimestamp |-> now]
    /\ last = [handled |-> FALSE, request |-> NoRequest, readResult |-> Undefined,
               reads |-> 0, checked |-> Undefined, branch |-> "none",
               response |-> NoResponse, passthrough |-> FALSE, thrown |-> FALSE,
               writes |-> NoWrites, order |-> << >>]
    /\ track = NoTrack
    /\ store = Undefined
    /\ calls = << >>
    /\ hist = NoHistory

\* The first gate handles a request from start to end.
GateCalls ==
    \E request \in ReplicaRequests :
        LET o == Middleware(gate, now, store, request, "none")
        IN  /\ gate' = o.gate
            /\ store' = Stored(store, o)
            /\ last' = Observed(request, store, o)
            /\ hist' = Recorded(hist, "gate", now, o)
            /\ UNCHANGED <<cfg, now, peer, track, calls>>

\* The second gate handles a request from start to end.
PeerCalls ==
    \E request \in ReplicaRequests :
        LET o == Middleware(peer, now, store, request, "none")
        IN  /\ peer' = o.gate
            /\ store' = Stored(store, o)
            /\ last' = Observed(request, store, o)
            /\ hist' = Recorded(hist, "peer", now, o)
            /\ UNCHANGED <<cfg, now, gate, track, calls>>

NextReplicas == GateCalls \/ PeerCalls \/ Tick

SpecReplicas == InitReplicas /\ [][NextReplicas]_vars

----------------------------------------------------------------------------
(* Calls in flight: the handler resumed at its two awaits *)

\* The number of calls the gate is handling at the same time.
MaxCalls == 2
CallIds == 1..MaxCalls

\* The requests of this part: an activation with a body, a deactivation, a
\* read of the mode and a protected request.
ConcurrentRequests ==
    {r \in StoreRequests :
        /\ r.method \in {"GET", "POST", "DELETE"}
        /\ r.path = ApiPath => r.method = "GET"
        /\ r.method = "POST" => r.body # Undefined}

\* A call not started yet.  A call in flight is at "reading" (awaiting
\* getExternalMaintenanceState), at "writing" (awaiting
\* setExternalMaintenanceState) or "done"; it keeps what the store held when
\* its read was issued and how many POSTs and DELETEs had been processed by
\* then, the state its blocking check saw, the state handed to the write
\* and what it sent.
IdleCall ==
    [pc |-> "idle", request |-> NoRequest, seen |-> Undefined, epoch |-> 0,
     checked |-> Undefined, written |-> Undefined,
     response |-> NoResponse, passthrough |-> FALSE, thrown |-> FALSE]

\* The gate has handled requests one at a time since its construction at 0,
\* its provider never consulted; the store holds what another instance left.
InitConcurrent ==
    /\ cfg \in StoreConfigs
    /\ now \in {0, TTL + 1}
    /\ gate \in [currentServerMode : ServerMode,
                 maintenanceResponseOptions : {Undefined, OptionsDown},
                 lastStateUpdateTimestamp : {0}]
    /\ store \in {Undefined} \cup
                 [currentServerMode : ServerMode, maintenanceResponseOptions : {OptionsBusy}]
    /\ calls = [i \in CallIds |-> IdleCall]
    /\ hist = [commands |-> 0, gate |-> gate, store |-> store]
    /\ last = [handled |-> FALSE, request |-> NoRequest, readResult |-> Undefined,
               reads |-> 0, checked |-> Undefined, branch |-> "none",
               response |-> NoResponse, passthrough |-> FALSE, thrown |-> FALSE,
               writes |-> NoWrites, order |-> << >>]
    /\ track = NoTrack
    /\ peer = Undefined

\* The assignments of updateLocalMaintenanceState that follow its await,
\* made to the fields as they are when the read resolves.
ApplyRead(g, t, result) ==
    IF result # Undefined
    THEN [currentServerMode |-> result.currentServerMode,
          maintenanceResponseOptions |-> result.maintenanceResponseOptions,
          lastStateUpdateTimestamp |-> t]
    ELSE g

\* The handler of call i from its blocking check on, run on the local state
\* g1 without interruption up to its end or up to the await of the write.
Decide(i, c, g1) ==
    LET o == Middleware(g1, now, Undefined, c.request, "none")
        awaits == o.writes # NoWrites
    IN  /\ gate' = o.gate
        /\ calls' = [calls EXCEPT ![i] =
                        [c EXCEPT !.pc = IF awaits THEN "writing" ELSE "done",
                                  !.checked = getLocalMaintenanceState(g1),
                                  !.written = IF awaits THEN o.writes[1] ELSE Undefined,
                                  !.response = IF awaits THEN NoResponse ELSE o.response,
                                  !.passthrough = o.passthrough,
                                  !.thrown = o.thrown]]
        /\ hist' = [hist EXCEPT !.commands =
                        IF o.branch \in {"POST", "DELETE"} THEN @ + 1 ELSE @]

\* The handler is called with a request: it issues the read of the provider
\* and awaits it, or goes on at once when no read is due.
Begin(i) ==
    /\ calls[i].pc = "idle"
    /\ \E request \in ConcurrentRequests :
            LET c == [calls[i] EXCEPT !.request = request]
            IN  IF RefreshReads(gate, now)
                THEN /\ calls' = [calls EXCEPT ![i] =
                                    [c EXCEPT !.pc = "reading", !.seen = store,
                                              !.epoch = hist.commands]]
                     /\ UNCHANGED <<gate, hist>>
                ELSE Decide(i, c, gate)
    /\ UNCHANGED <<cfg, now, store, last, track, peer>>

\* The read of call i resolves, to what the store held when it was issued
\* or to what it holds now, and the handler goes on.
ReadResolves(i) ==
    /\ calls[i].pc = "reading"
    /\ \E result \in {calls[i].seen, store} :
            Decide(i, calls[i], ApplyRead(gate, now, result))
    /\ UNCHANGED <<cfg, now, store, last, track, peer>>

\* The write of call i resolves: the store holds the state handed to it and
\* the 200 response is built from the fields as they are now.
WriteResolves(i) ==
    /\ calls[i].pc = "writing"
    /\ store' = calls[i].written
    /\ calls' = [calls EXCEPT ![i] =
                    [@ EXCEPT !.pc = "done",
                              !.response =
                                    [status |-> 200,
                                     body |-> [message |-> ModeMessage(gate.currentServerMode),
                                               maintenanceResponseOptions |->
                                                    gate.maintenanceResponseOptions]]]]
    /\ UNCHANGED <<cfg, gate, now, last, track, peer, hist>>

NextConcurrent == \E i \in CallIds : Begin(i) \/ ReadResolves(i) \/ WriteResolves(i)

SpecConcurrent == InitConcurrent /\ [][NextConcurrent]_vars

----------------------------------------------------------------------------
(* Vocabulary of the properties, stated on the record of a call *)

\* The request path contains the protected prefix (the API base path).
PathHasPrefix(request) ==
    \E i \in 1..Len(request.path) : \E j \in i..Len(request.path) :
        SubSeq(request.path, i, j) = cfg.apiBasePath

\* The request url (path and query string) contains the protected prefix.
UrlHasPrefix(request) ==
    \E i \in 1..Len(RequestUrl(request)) : \E j \in i..Len(RequestUrl(request)) :
        SubSeq(RequestUrl(request), i, j) = cfg.apiBasePath

\* The request path ends with the management path.
PathEndsWithUrl(request) ==
    /\ Len(request.path) >= Len(cfg.url)
    /\ SubSeq(request.path, Len(request.path) - Len(cfg.url) + 1, Len(request.path)) = cfg.url

\* The accessKey query parameter is absent or is not the configured key.
KeyAbsentOrDifferent(request) ==
    \/ ~request.query.present
    \/ request.query.accessKey # cfg.accessKey

\* The call reached its blocking check and found the mode to be maintenance.
InMaintenance(l) ==
    l.handled /\ l.checked # Undefined /\ l.checked.currentServerMode = "maintenance"

\* The response the blocking check is to send for the options it saw.
BlockedResponse(options) == [status |-> options.statusCode, body |-> options.body]

\* The step is a call of the middleware (the only other step moves the clock).
IsCall == now' = now

\* The call applied no state of the provider to the local state.
NoRefreshApplied(l) == l.reads = 0 \/ l.readResult = Undefined

----------------------------------------------------------------------------
(* C1 *)

\* C1: every request whose path contains the protected prefix and that is
\* handled while the mode, as it stands after the refresh step, is
\* maintenance is never passed through and is sent one response whose status
\* and body are those of the current responseOptions.  The code does not
\* send it when responseOptions is undefined.
C1_BlockedAlwaysAnswered ==
    (InMaintenance(last) /\ PathHasPrefix(last.request)) =>
        /\ ~last.passthrough
        /\ last.response # NoResponse
        /\ last.checked.maintenanceResponseOptions # Undefined
        /\ last.response = BlockedResponse(last.checked.maintenanceResponseOptions)

\* What does hold of the blocking check: such a request is never passed
\* through, and is sent the blocked response whenever responseOptions is
\* defined.
C1_BlockedWhenOptionsDefined ==
    (InMaintenance(last) /\ PathHasPrefix(last.request)) =>
        /\ ~last.passthrough
        /\ last.checked.maintenanceResponseOptions # Undefined =>
                last.response = BlockedResponse(last.checked.maintenanceResponseOptions)

----------------------------------------------------------------------------
(* C2 *)

\* C2: every request whose path neither contains the protected prefix nor
\* ends with the management path, whatever its verb, query and body and
\* whatever the mode, is passed through with no response.  The code tests the
\* url, query string included, for the prefix.
C2_OtherPathsPassThrough ==
    (last.handled /\ ~PathHasPrefix(last.request) /\ ~PathEndsWithUrl(last.request)) =>
        /\ last.passthrough
        /\ last.response = NoResponse

----------------------------------------------------------------------------
(* C3 *)

\* The latest management command processed was a POST with a body.
AfterPostWithBody == track.command = "POST" /\ track.body # Undefined

\* C3 as stated: after an authorized POST with body {statusCode: s, body: b},
\* the next request on a protected path is answered with status s and body
\* b, in every configuration and whatever time has passed.
C3_NextProtectedGetsPostedBody ==
    [][(IsCall /\ AfterPostWithBody /\ PathHasPrefix(last'.request)) =>
            last'.response = BlockedResponse(track.body)]_vars

\* C3 amended: after an authorized POST with body {statusCode: s, body: b},
\* a later request on a protected path is answered with status s and body b
\* as long as no management command has been processed and no refresh has
\* applied a state of the provider since the POST, that request's own
\* refresh step included.
C3_NextProtectedGetsPostedBodyUnlessRefreshed ==
    [][(IsCall /\ AfterPostWithBody /\ PathHasPrefix(last'.request)
            /\ NoRefreshApplied(last')) =>
            /\ last'.response = BlockedResponse(track.body)
            /\ ~last'.passthrough]_vars

\* A protected request answered with the body of the POST that came before
\* it, with the clock past the TTL in between when a provider is configured.
C3_Witness ==
    /\ AfterPostWithBody
    /\ last.handled /\ PathHasPrefix(last.request)
    /\ last.request.method = "GET"
    /\ last.response = BlockedResponse(track.body)
    /\ cfg.hasGet /\ last.reads = 1

----------------------------------------------------------------------------
(* C4 *)

\* The latest management command processed was a DELETE.
AfterDelete == track.command = "DELETE"

\* The call was answered by the blocking check: the blocked response, or the
\* failure to build it.
AnsweredByBlockingCheck(l) ==
    /\ InMaintenance(l)
    /\ UrlHasPrefix(l.request)
    /\ l.response = NoResponse \/ l.response = BlockedResponse(l.checked.maintenanceResponseOptions)

\* C4 as stated: after an authorized DELETE, every later request on a
\* protected path is let through (not blocked) until the next authorized
\* POST, in every configuration.
C4_NotBlockedAfterDelete ==
    [][(IsCall /\ AfterDelete /\ PathHasPrefix(last'.request)) =>
            ~AnsweredByBlockingCheck(last')]_vars

\* C4 amended: after an authorized DELETE, every later request on a protected
\* path is not blocked (it is passed through, or handled as a management
\* request when its path also ends with the management path) until the next
\* authorized POST or the next refresh that applies a state of the provider.
C4_NotBlockedAfterDeleteUnlessRefreshed ==
    [][(IsCall /\ AfterDelete /\ PathHasPrefix(last'.request)
            /\ NoRefreshApplied(last')) =>
            /\ ~AnsweredByBlockingCheck(last')
            /\ ~last'.thrown
            /\ ~PathEndsWithUrl(last'.request) =>
                    (last'.passthrough /\ last'.response = NoResponse)]_vars

\* A protected request passed through after a DELETE while the response
\* options of an earlier activation are still set.
C4_Witness ==
    /\ AfterDelete
    /\ gate.maintenanceResponseOptions # Undefined
    /\ last.handled /\ PathHasPrefix(last.request) /\ ~PathEndsWithUrl(last.request)
    /\ last.passthrough

----------------------------------------------------------------------------
(* C5 *)

\* A request to the management path that lacks the configured access key.
LacksKey(request) ==
    cfg.accessKey # << >> /\ PathEndsWithUrl(request) /\ KeyAbsentOrDifferent(request)

\* A GET on the management path with the access key the configuration asks for.
AuthorizedGet(request) ==
    /\ request.method = "GET"
    /\ PathEndsWithUrl(request)
    /\ cfg.accessKey # << >> => ~KeyAbsentOrDifferent(request)

UnauthorizedResponse ==
    [status |-> 401, body |-> [message |-> <<"You not authorized to perform this action">>]]

\* The rejected request changed nothing: the mode and responseOptions are
\* those its own refresh step left, and nothing was written.
RejectedWithoutEffect(l, g) ==
    /\ l.response = UnauthorizedResponse
    /\ ~l.passthrough
    /\ getLocalMaintenanceState(g) = l.checked
    /\ l.writes = NoWrites

\* C5 as stated: with accessKey configured, every management request whose
\* accessKey parameter is absent or different is answered 401, changes
\* neither mode nor responseOptions and writes nothing.  It is stated for the
\* requests whose query string does not bring the protected prefix into the
\* url, for which the code's test of the url is a test of the path.
C5_LackingKeyIsRejected ==
    (/\ last.handled /\ LacksKey(last.request)
     /\ UrlHasPrefix(last.request) => PathHasPrefix(last.request)) =>
        RejectedWithoutEffect(last, gate)

\* C5 amended: with accessKey configured, every management request whose
\* accessKey parameter is absent or different and that the blocking check,
\* which comes first, does not answer is answered 401, changes neither mode
\* nor responseOptions and writes nothing; an authorized GET handled next,
\* if not blocked and with no provider state applied by its refresh step,
\* reports the mode that held at the rejected request.
C5_LackingKeyIsRejectedUnlessBlocked ==
    [][IsCall =>
        /\ (LacksKey(last'.request) /\ ~AnsweredByBlockingCheck(last')) =>
                RejectedWithoutEffect(last', gate')
        /\ (/\ last.handled /\ LacksKey(last.request) /\ ~AnsweredByBlockingCheck(last)
            /\ AuthorizedGet(last'.request) /\ ~AnsweredByBlockingCheck(last')
            /\ NoRefreshApplied(last')) =>
                last'.response =
                    [status |-> 200,
                     body |-> [message |-> ModeMessage(last.checked.currentServerMode)]]]_vars

\* A request without the key rejected while the server is in maintenance mode.
C5_Witness ==
    /\ last.handled /\ LacksKey(last.request)
    /\ last.request.method = "DELETE"
    /\ last.response = UnauthorizedResponse
    /\ gate.currentServerMode = "maintenance"

----------------------------------------------------------------------------
(* C6 *)

----------------------------------------------------------------------------
(* C7 *)

\* C7: when the refresh step reads the provider and gets nothing, the local
\* cache is untouched: the blocking check is reached and sees the mode and
\* responseOptions of before the call, and lastStateUpdateTimestamp is kept.
C7_EmptyReadLeavesCache ==
    [][(IsCall /\ last'.reads = 1 /\ last'.readResult = Undefined) =>
            /\ last'.checked = getLocalMaintenanceState(gate)
            /\ gate'.lastStateUpdateTimestamp = gate.lastStateUpdateTimestamp
            /\ last'.order[1] = "read"
            /\ last'.branch # "refresh"]_vars

\* A call in maintenance mode whose read of the provider returned nothing
\* and that was then blocked.
C7_Witness ==
    /\ last.handled /\ last.reads = 1 /\ last.readResult = Undefined
    /\ last.branch = "blocked"
    /\ last.response # NoResponse

----------------------------------------------------------------------------
(* C8 *)

\* The call ran no management command: no management response, no change of
\* mode or responseOptions, nothing written.
NotAManagementCommand(l, g) ==
    /\ l.response = NoResponse \/ l.response.status \notin {200, 401, 405}
    /\ getLocalMaintenanceState(g) = l.checked
    /\ l.writes = NoWrites

\* C8: while the mode is maintenance, a request whose path both contains the
\* protected prefix and ends with the management path is answered with the
\* blocked response, for every verb and access key, and is never processed
\* as a management command.  The code does not send the blocked response
\* when responseOptions is undefined.
C8_BlockedBeforeManagement ==
    (InMaintenance(last) /\ PathHasPrefix(last.request) /\ PathEndsWithUrl(last.request)) =>
        /\ last.response # NoResponse
        /\ last.checked.maintenanceResponseOptions # Undefined
        /\ last.response = BlockedResponse(last.checked.maintenanceResponseOptions)
        /\ NotAManagementCommand(last, gate)

\* The precedence itself: in maintenance mode such a request is never
\* processed as a management command, and gets the blocked response
\* whenever responseOptions is defined.
C8_NeverProcessedAsManagement ==
    (InMaintenance(last) /\ PathHasPrefix(last.request) /\ PathEndsWithUrl(last.request)) =>
        /\ NotAManagementCommand(last, gate)
        /\ ~last.passthrough
        /\ last.checked.maintenanceResponseOptions # Undefined =>
                last.response = BlockedResponse(last.checked.maintenanceResponseOptions)

----------------------------------------------------------------------------
(* C9 *)

\* The request is a management request with the right to be processed.
Authorized(request) ==
    /\ PathEndsWithUrl(request)
    /\ cfg.accessKey # << >> => ~KeyAbsentOrDifferent(request)

\* The call processed an authorized POST (DELETE) on the management
\* endpoint: the blocking check did not answer it first.
Processed(l, method) ==
    /\ l.handled
    /\ l.request.method = method
    /\ Authorized(l.request)
    /\ ~AnsweredByBlockingCheck(l)

\* The refresh step of the call applied the state the provider returned, the
\* TTL having elapsed since the timestamp g held before the call.
RefreshApplied(l, g, t) ==
    /\ cfg.hasGet
    /\ t - g.lastStateUpdateTimestamp > cfg.localMaintenanceStateTTL
    /\ l.reads = 1
    /\ l.readResult # Undefined
    /\ l.checked = l.readResult

\* C9: the mode starts as default and a call changes it in three ways only:
\* to maintenance by an authorized POST, to default by an authorized DELETE,
\* and to the provider's mode by a refresh that returns a state after the
\* TTL.  Any other request leaves mode and responseOptions as its refresh
\* step left them, and the clock alone changes nothing.  With no provider
\* configured the mode is maintenance exactly when the latest POST or DELETE
\* processed was a POST.
C9_ModeStateMachine ==
    /\ (~last.handled => gate.currentServerMode = "default")
    /\ [][/\ ~IsCall => gate' = gate
          /\ IsCall =>
                /\ last'.checked # getLocalMaintenanceState(gate) => RefreshApplied(last', gate, now)
                /\ Processed(last', "POST") => gate'.currentServerMode = "maintenance"
                /\ Processed(last', "DELETE") => gate'.currentServerMode = "default"
                /\ ~(Processed(last', "POST") \/ Processed(last', "DELETE")) =>
                        getLocalMaintenanceState(gate') = last'.checked
                /\ ~cfg.hasGet =>
                        (gate'.currentServerMode = "maintenance" <=> track'.command = "POST")]_vars

\* The mode maintenance as a refresh set it (no POST or DELETE processed
\* since), left alone by a request with an unsupported verb.
C9_Witness ==
    /\ track.command = "none"
    /\ gate.currentServerMode = "maintenance"
    /\ last.handled /\ last.response # NoResponse /\ last.response.status = 405

----------------------------------------------------------------------------
(* C10 *)

\* The place of the first event e in the order of events, 0 if absent.
Place(order, e) ==
    IF \E i \in 1..Len(order) : order[i] = e
    THEN CHOOSE i \in 1..Len(order) : order[i] = e /\ \A j \in 1..(i - 1) : order[j] # e
    ELSE 0

\* C10: an authorized POST or DELETE with setExternalMaintenanceState
\* configured hands it, once, the new mode with the responseOptions in
\* effect after the change, and sends the 200 response after that call;
\* without it nothing is written and the 200 response is sent all the same.
C10_WriteThenRespond ==
    \A method \in {"POST", "DELETE"} :
        Processed(last, method) =>
            /\ last.response # NoResponse
            /\ last.response.status = 200
            /\ Place(last.order, "respond") > 0
            /\ IF cfg.hasSet
               THEN /\ last.writes =
                            <<[currentServerMode |->
                                    IF method = "POST" THEN "maintenance" ELSE "default",
                               maintenanceResponseOptions |->
                                    IF method = "POST" /\ last.request.body # Undefined
                                    THEN last.request.body
                                    ELSE last.checked.maintenanceResponseOptions]>>
                    /\ last.writes[1] = getLocalMaintenanceState(gate)
                    /\ Place(last.order, "write") > 0
                    /\ Place(last.order, "write") < Place(last.order, "respond")
               ELSE /\ last.writes = NoWrites
                    /\ Place(last.order, "write") = 0

\* A DELETE processed with the persister configured, writing options kept
\* from an earlier activation.
C10_Witness ==
    /\ Processed(last, "DELETE")
    /\ cfg.hasSet
    /\ Len(last.writes) = 1
    /\ last.writes[1].maintenanceResponseOptions # Undefined

----------------------------------------------------------------------------
(* C11 *)

\* The latest management command processed was a POST and no refresh has
\* applied a state of the provider since.
AfterPost == track.command = "POST"

\* C11 as stated: an authorized GET on the management endpoint that follows
\* an authorized POST, with no state change in between and not answered by
\* the blocking check, is answered with the mode and the responseOptions
\* that POST set.  It is stated for the POSTs that carried a body.
C11_GetReflectsModeAndOptions ==
    [][(/\ IsCall /\ AfterPost /\ track.body # Undefined
        /\ AuthorizedGet(last'.request) /\ NoRefreshApplied(last')
        /\ ~AnsweredByBlockingCheck(last')) =>
            last'.response =
                [status |-> 200,
                 body |-> [message |-> ModeMessage("maintenance"),
                           maintenanceResponseOptions |-> gate.maintenanceResponseOptions]]]_vars

\* C11 amended: an authorized GET on the management endpoint that follows an
\* authorized POST, with no state change in between and not answered by the
\* blocking check, is answered 200 with the message naming the mode
\* maintenance and nothing else (the responseOptions are not in it); the
\* local state still holds the mode and the responseOptions of that POST,
\* the posted body itself when there was one.  When the url of the GET
\* contains the protected prefix the blocking check answers it instead.
C11_GetReflectsModeOnly ==
    [][(/\ IsCall /\ AfterPost
        /\ AuthorizedGet(last'.request) /\ NoRefreshApplied(last')) =>
            /\ gate.currentServerMode = "maintenance"
            /\ track.body # Undefined => gate.maintenanceResponseOptions = track.body
            /\ getLocalMaintenanceState(gate') = getLocalMaintenanceState(gate)
            /\ IF UrlHasPrefix(last'.request)
               THEN last'.branch = "blocked"
               ELSE last'.response =
                        [status |-> 200,
                         body |-> [message |-> <<"Server in", "maintenance", "mode now">>]]]_vars

\* A GET answered 200 after a POST with a body, the posted options in place.
C11_Witness ==
    /\ AfterPost /\ track.body = OptionsDown
    /\ last.handled /\ AuthorizedGet(last.request)
    /\ last.branch = "GET"
    /\ last.response = [status |-> 200, body |-> [message |-> ModeMessage("maintenance")]]
    /\ gate.maintenanceResponseOptions = OptionsDown

----------------------------------------------------------------------------
(* C12 *)

\* The call being made is an authorized POST that repeats, body included,
\* the POST the call before it processed.
RepeatsProcessedPost ==
    /\ IsCall
    /\ Processed(last, "POST")
    /\ last'.request.method = "POST"
    /\ Authorized(last'.request)
    /\ last'.request.body = last.request.body

----------------------------------------------------------------------------
(* C13 *)

\* The latest call was made by the second gate, the store was last written
\* by the first, and at least `age` has passed between the two.
PeerCalledAfterWrite(age) ==
    /\ hist.caller = "peer"
    /\ hist.writer = "gate"
    /\ hist.calledAt - hist.writtenAt >= age

----------------------------------------------------------------------------
(* C14 *)

\* What was sent for a request: the response, or next(), or the rejection.
Sent(c) == [response |-> c.response, passthrough |-> c.passthrough, thrown |-> c.thrown]

\* The orders in which the calls can be handled one at a time.
Orders == {order \in [CallIds -> CallIds] : \A i, j \in CallIds : order[i] = order[j] => i = j}

\* The requests of the calls handled one at a time in the given order, each
\* from start to end, from local state g and store s: what is sent for each
\* and the local mode and responseOptions at the end.
RECURSIVE OneAtATime(_, _, _, _, _)
OneAtATime(g, s, order, k, sent) ==
    IF k > MaxCalls
    THEN [sent |-> sent, final |-> getLocalMaintenanceState(g)]
    ELSE LET o == Middleware(g, now, s, calls[order[k]].request, "none")
         IN  OneAtATime(o.gate, Stored(s, o), order, k + 1,
                        [sent EXCEPT ![order[k]] = Sent(o)])

AllDone == \A i \in CallIds : calls[i].pc = "done"

\* C14: when the calls in flight have all ended, what each one sent and the
\* local mode and responseOptions are what handling their requests one at a
\* time, in some order, from the same local state and store gives.
C14_Serializable ==
    AllDone =>
        \E order \in Orders :
            OneAtATime(hist.gate, hist.store, order, 1, [i \in CallIds |-> Undefined]) =
                [sent |-> [i \in CallIds |-> Sent(calls[i])],
                 final |-> getLocalMaintenanceState(gate)]

----------------------------------------------------------------------------
(* C15 *)

\* C15: responseOptions is retained across the changes of mode.  A processed
\* DELETE sets the mode to default and a processed POST without a body sets
\* it to maintenance, both keeping the responseOptions their refresh step
\* left; a call changes responseOptions only by a processed POST with a body
\* (to that body) or by a refresh that applies a state of the provider; and
\* once a POST without a body has reactivated options kept from before, a
\* protected request is blocked with their status and body.
C15_OptionsRetained ==
    [][IsCall =>
        /\ Processed(last', "DELETE") =>
                /\ gate'.currentServerMode = "default"
                /\ gate'.maintenanceResponseOptions = last'.checked.maintenanceResponseOptions
        /\ (Processed(last', "POST") /\ last'.request.body = Undefined) =>
                /\ gate'.currentServerMode = "maintenance"
                /\ gate'.maintenanceResponseOptions = last'.checked.maintenanceResponseOptions
        /\ gate'.maintenanceResponseOptions # gate.maintenanceResponseOptions =>
                \/ /\ Processed(last', "POST")
                   /\ last'.request.body # Undefined
                   /\ gate'.maintenanceResponseOptions = last'.request.body
                \/ /\ RefreshApplied(last', gate, now)
                   /\ gate'.maintenanceResponseOptions = last'.readResult.maintenanceResponseOptions
        /\ NoRefreshApplied(last') =>
                last'.checked.maintenanceResponseOptions = gate.maintenanceResponseOptions
        /\ (/\ AfterPost /\ track.body = Undefined
            /\ gate.maintenanceResponseOptions # Undefined
            /\ PathHasPrefix(last'.request) /\ NoRefreshApplied(last')) =>
                last'.response = BlockedResponse(gate.maintenanceResponseOptions)]_vars

\* A protected request blocked with the options of an earlier POST, the
\* latest activation being a POST without a body.
C15_Witness ==
    /\ AfterPost /\ track.body = Undefined
    /\ gate.maintenanceResponseOptions = OptionsDown
    /\ last.handled /\ last.branch = "blocked"
    /\ PathHasPrefix(last.request)
    /\ last.response = BlockedResponse(OptionsDown)

----------------------------------------------------------------------------
(* C16 *)

\* The call ended at a rejected read of the provider.
ReadFailed(l) == l.handled /\ l.branch = "refresh"

\* C16: a call whose read of the provider rejects ends there.  The handler
\* rejects, no response is sent, next() is not called, the read was made
\* once, nothing is written, and currentServerMode,
\* maintenanceResponseOptions and lastStateUpdateTimestamp are what they
\* were before the call; the store is as it was.
C16_ReadFailurePropagates ==
    [][ReadRejects =>
        /\ ReadFailed(last')
        /\ last'.thrown
        /\ last'.response = NoResponse
        /\ ~last'.passthrough
        /\ last'.reads = 1
        /\ last'.order = <<"read", "throw">>
        /\ last'.writes = NoWrites
        /\ gate' = gate
        /\ store' = store]_vars

\* A protected request in maintenance mode left without a response by a
\* rejected read, while the store says the mode is default.
C16_Witness ==
    /\ ReadFailed(last)
    /\ last.request.path = ApiPath
    /\ gate.currentServerMode = "maintenance"
    /\ store # Undefined /\ store.currentServerMode = "default"

----------------------------------------------------------------------------
(* C17 *)

\* The call ended at a rejected write of its POST or DELETE case.
WriteFailed(l) == l.handled /\ l.thrown /\ l.branch \in {"POST", "DELETE"}

\* C17: a POST or DELETE whose write rejects keeps the change it made to the
\* local state (the new mode, and the posted body if any), sends no response
\* and does not call next(); the write was attempted once and the store is
\* as it was, so that it differs from the local state whenever it did not
\* hold the new state already.  With a provider configured, a later call
\* whose read resolves to a state sees, from its blocking check on, the mode
\* and responseOptions of the store.
C17_WriteFailureKeepsLocalChange ==
    [][/\ WriteRejects =>
                /\ WriteFailed(last')
                /\ cfg.hasSet
                /\ gate'.currentServerMode =
                        IF last'.branch = "POST" THEN "maintenance" ELSE "default"
                /\ gate'.maintenanceResponseOptions =
                        IF last'.branch = "POST" /\ last'.request.body # Undefined
                        THEN last'.request.body
                        ELSE last'.checked.maintenanceResponseOptions
                /\ last'.response = NoResponse
                /\ ~last'.passthrough
                /\ last'.writes = <<getLocalMaintenanceState(gate')>>
                /\ last'.order[Len(last'.order)] = "throw"
                /\ store' = store
       /\ ((HandleOnStore \/ WriteRejects) /\ last'.reads = 1 /\ store # Undefined) =>
                /\ last'.checked = store
                /\ gate'.lastStateUpdateTimestamp = now]_vars

\* A POST with a body whose write rejected: the local state has the new
\* mode and options, the store another state.
C17_Witness ==
    /\ cfg.hasGet /\ cfg.hasSet
    /\ WriteFailed(last)
    /\ last.branch = "POST"
    /\ store # Undefined
    /\ store # getLocalMaintenanceState(gate)
    /\ gate.maintenanceResponseOptions = OptionsDown

----------------------------------------------------------------------------
(* C18 *)

\* C18: a read of the provider issued before a POST or DELETE was processed
\* and resolving after it is not applied: the call it belongs to runs its
\* blocking check on the mode and responseOptions that command left.
C18_LateReadNotApplied ==
    [][\A i \in CallIds :
            (/\ calls[i].pc = "reading"
             /\ calls'[i].pc # "reading"
             /\ calls[i].epoch < hist.commands) =>
                calls'[i].checked = getLocalMaintenanceState(gate)]_vars

----------------------------------------------------------------------------
(* C19 *)

\* Every path that ends with the management path contains the protected
\* prefix: the management path itself contains it.
ManagementUnderPrefix ==
    \E i \in 1..Len(cfg.url) : \E j \in i..Len(cfg.url) :
        SubSeq(cfg.url, i, j) = cfg.apiBasePath

\* C19: when every management path contains the protected prefix, no call
\* made in mode maintenance leaves the mode default unless its refresh step
\* applied a state of the provider whose mode is default: the DELETE that
\* would deactivate is answered by the blocking check.  With no provider
\* configured the mode maintenance is never left.
C19_LockedOutUnderOverlap ==
    [][(ManagementUnderPrefix /\ gate.currentServerMode = "maintenance") =>
        /\ gate'.currentServerMode = "default" =>
                /\ IsCall
                /\ RefreshApplied(last', gate, now)
                /\ last'.readResult.currentServerMode = "default"
        /\ ~cfg.hasGet => gate'.currentServerMode = "maintenance"
        /\ (IsCall /\ PathEndsWithUrl(last'.request) /\ NoRefreshApplied(last')) =>
                /\ last'.branch = "blocked"
                /\ getLocalMaintenanceState(gate') = getLocalMaintenanceState(gate)]_vars

\* An authorized DELETE on the management path answered with the blocked
\* response, the mode still maintenance.
C19_Witness ==
    /\ ManagementUnderPrefix
    /\ last.handled /\ last.request.method = "DELETE" /\ Authorized(last.request)
    /\ last.branch = "blocked"
    /\ last.response = BlockedResponse(OptionsDown)
    /\ gate.currentServerMode = "maintenance"

----------------------------------------------------------------------------
(* C20 *)

\* C20: lastStateUpdateTimestamp moves only in a call whose refresh step
\* read a state from the provider, and then to the time of the call: an
\* empty read, a POST and a DELETE leave it.  So once the TTL has elapsed
\* the provider is read by every call, and a call that follows a call whose
\* read was empty reads again, whatever time has passed in between.
C20_TimestampMovesOnNonEmptyReadOnly ==
    [][/\ gate'.lastStateUpdateTimestamp # gate.lastStateUpdateTimestamp =>
                /\ IsCall
                /\ last'.reads = 1
                /\ last'.readResult # Undefined
                /\ gate'.lastStateUpdateTimestamp = now
       /\ (IsCall /\ NoRefreshApplied(last')) =>
                gate'.lastStateUpdateTimestamp = gate.lastStateUpdateTimestamp
       /\ (IsCall /\ last.handled /\ last.reads = 1 /\ last.readResult = Undefined) =>
                last'.reads = 1
       /\ (IsCall /\ cfg.hasGet
           /\ now - gate.lastStateUpdateTimestamp > cfg.localMaintenanceStateTTL) =>
                last'.reads = 1]_vars

\* A POST processed in a call whose read was empty, long after the TTL, the
\* timestamp still that of construction.
C20_Witness ==
    /\ last.handled /\ last.reads = 1 /\ last.readResult = Undefined
    /\ last.branch = "POST"
    /\ gate.lastStateUpdateTimestamp = 0
    /\ now > 2 * cfg.localMaintenanceStateTTL

====
